---------------------------- MODULE Spec2Model ----------------------------
(***************************************************************************)
(* Model of Sources/file.c: the buffered, non-blocking file channel        *)
(* (struct mill_file) of libvenice.  One channel, one owning task.         *)
(*                                                                         *)
(* A call runs from "idle" through the positions of its loop: every        *)
(* read(2)/write(2) and every fdwait() is one step, because the kernel     *)
(* and the scheduler choose the result.  Everything the C code does        *)
(* between two such points is part of the step that precedes it.           *)
(***************************************************************************)
EXTENDS Integers, Sequences, FiniteSets, TLC

\* #define MILL_FILE_BUFLEN (a build-time constant; small here)
MILL_FILE_BUFLEN == 2

\* Bounds of the model.
MaxLen  == 4     \* longest payload / read request / highwater
MaxSub  == 4     \* bytes submitted to filewrite over the channel's life
MaxData == 3     \* bytes present on the descriptor at creation
MaxWr   == 5     \* bytes the descriptor accepts over the channel's life
MaxCalls    == 2  \* calls made on the channel, all operations mixed
MaxCallsOut == 4  \* calls made when only filewrite and fileflush are called
MaxCallsIn  == 4  \* calls made when only fileread and filereadlh are called
MaxCallsRT  == 4  \* calls of a write, flush, seek, read sequence
MaxCallsPos == 4  \* calls made when only reads, fileseek and filetell are called
MaxCallsLive == 2 \* calls made where termination is examined

VARIABLES
    f,          \* struct mill_file: ifirst, ilen, olen, ibuf, obuf, eof, mode
    errno,      \* the C errno
    kind,       \* what the descriptor really is (fstat's st_mode class)
    data,       \* the bytes of the descriptor (file content / incoming stream)
    offset,     \* the descriptor's position
    wr,         \* every byte write(2) accepted, in order
    pc,         \* position of the running call, "idle" between calls
    infw,       \* fileflush was called by filewrite
    len, lowwater, highwater,   \* arguments of the running call
    buf,        \* caller's buffer: the payload, or the bytes copied so far
    remaining, received,        \* locals of the running call
    ret,        \* what the last call returned: op, val, err (errno), data
    ev,         \* last answer of the kernel / scheduler within the call
    how,        \* "open" or "attach"
    nsub,       \* bytes submitted to filewrite so far (they are numbered)
    got,        \* bytes returned to the caller since creation or the last seek
    zr,         \* a read(2) returned 0 since creation or the last seek
    clean,      \* no write/flush ended in error or timeout, no seek dropped output
    rt,         \* progress of a write-flush-seek(0)-read sequence
    sought,     \* offset of the last fileseek if only reads followed it, else -1
    dropped,    \* bytes that were in f->obuf when a fileseek discarded it
    spin,       \* an odd number of would-blocks in a row has just been seen
    calls       \* calls the owning task has yet to make

vars == <<f, errno, kind, data, offset, wr, pc, infw, len, lowwater,
          highwater, buf, remaining, received, ret, ev, how,
          nsub, got, zr, clean, rt, sought, dropped, spin, calls>>

args   == <<len, lowwater, highwater>>
fdvars == <<data, offset, wr>>
fixed  == <<kind, how>>
env    == <<kind, how, calls>>
hist   == <<sought, dropped>>

Min(a, b) == IF a < b THEN a ELSE b

-----------------------------------------------------------------------------
\* Memory helpers (memcpy and pointer arithmetic on the fixed arrays).

Zeros == [i \in 1..MILL_FILE_BUFLEN |-> 0]

\* memcpy(&arr[at], bytes, Len(bytes))
MemcpyInto(arr, at, bytes) ==
    [i \in 1..Len(arr) |->
        IF i > at /\ i <= at + Len(bytes) THEN bytes[i - at] ELSE arr[i]]

\* the n bytes at &arr[from]
BytesAt(arr, from, n) == SubSeq(arr, from + 1, from + n)

\* SkipFdwait with the directory test left out.
SkipFdwait_RegOnly(mode) == mode = "S_IFREG"

\* SkipFdwait with every descriptor treated as a regular file.
SkipFdwait_Always(mode) == TRUE

\* S_ISREG(f->mode) || S_ISDIR(f->mode)
SkipFdwait(mode) == mode \in {"S_IFREG", "S_IFDIR"}

\* Fits with the buffer's last byte never used.
Fits_Strict(olen, n) == olen + n < MILL_FILE_BUFLEN

\* f->olen + len <= MILL_FILE_BUFLEN
Fits(olen, n) == olen + n <= MILL_FILE_BUFLEN

\* TakeFront with the length left as it was.
TakeFront_NoShrink(g, n) == [g EXCEPT !.ifirst = g.ifirst + n]

\* f->ifirst += n; f->ilen -= n  (lines 171-172, 262-263)
TakeFront(g, n) == [g EXCEPT !.ifirst = g.ifirst + n, !.ilen = g.ilen - n]

\* f->ifirst = 0; f->ilen = 0  (lines 183-184, 225-226, 253-254, ...)
Emptied(g) == [g EXCEPT !.ifirst = 0, !.ilen = 0]

\* KeepSurplus with the cursor left at the start of the buffer.
KeepSurplus_AtZero(g, bytes, need) ==
    [g EXCEPT !.ibuf = MemcpyInto(g.ibuf, 0, bytes),
              !.ifirst = 0, !.ilen = Len(bytes) - need]

\* read(2) left bytes in f->ibuf and the caller takes the first `need` of
\* them: f->ifirst = remaining; f->ilen = sz - remaining  (lines 230-231,
\* 326-327)
KeepSurplus(g, bytes, need) ==
    [g EXCEPT !.ibuf = MemcpyInto(g.ibuf, 0, bytes),
              !.ifirst = need, !.ilen = Len(bytes) - need]

\* SetEof with the assignment forgotten.
SetEof_Forgotten(g) == g

\* f->eof = 1  (lines 193, 213, 287, 308)
SetEof(g) == [g EXCEPT !.eof = TRUE]

\* OverHigh with the highwater test never taken.
OverHigh_Never(rcv, n, hw) == FALSE

\* received + sz > highwater  (line 324)
OverHigh(rcv, n, hw) == rcv + n > hw

\* Drained with the length left as it was.
Drained_Kept(g) == g

\* f->olen = 0  (line 163)
Drained(g) == [g EXCEPT !.olen = 0]

\* FlushSpan with pos never advanced.
FlushSpan_FromStart(obuf, olen, rem) == SubSeq(obuf, 1, rem)

\* The region of obuf the flush loop hands to write(2): pos .. pos+remaining
FlushSpan(obuf, olen, rem) == BytesAt(obuf, olen - rem, rem)

\* WriteSpan with pos never advanced.
WriteSpan_FromStart(payload, n, rem) == SubSeq(payload, 1, rem)

\* The region of the payload the direct loop hands to write(2)
WriteSpan(payload, n, rem) == BytesAt(payload, n - rem, rem)

-----------------------------------------------------------------------------
\* The kernel.

Modes == {"S_IFREG", "S_IFDIR", "S_IFIFO"}

\* Outcomes of write(fd, span, Len(span)): a count accepted, or -1 and errno.
WriteOutcomes(span) ==
    {[rc |-> n, err |-> "0"] :
        n \in IF kind = "S_IFDIR" THEN {}
              ELSE {k \in 1..Len(span) : Len(wr) + k <= MaxWr}}
    \cup {[rc |-> -1, err |-> "EAGAIN"], [rc |-> -1, err |-> "EIO"]}

\* The descriptor after write(2) accepted the first n bytes of span.
DataAfterWrite(span, n) ==
    IF kind = "S_IFREG"
    THEN [i \in 1..(IF offset + n > Len(data) THEN offset + n ELSE Len(data)) |->
            IF i > offset /\ i <= offset + n THEN span[i - offset] ELSE data[i]]
    ELSE data

OffsetAfterWrite(n) == IF kind = "S_IFREG" THEN offset + n ELSE offset

\* Outcomes of read(fd, dst, count): a count delivered, 0 at end of stream,
\* or -1 and errno.
ReadOutcomes(count) ==
    {[rc |-> n, err |-> "0"] :
        n \in IF kind = "S_IFDIR" THEN {}
              ELSE 1..Min(count, Len(data) - offset)}
    \cup (IF kind # "S_IFDIR" /\ offset >= Len(data)
          THEN {[rc |-> 0, err |-> "0"]} ELSE {})
    \cup {[rc |-> -1, err |-> "EAGAIN"], [rc |-> -1, err |-> "EIO"]}

-----------------------------------------------------------------------------
\* Bookkeeping of a call's start and return.

NoRet == [op |-> "none", val |-> 0, err |-> "0", data |-> <<>>]

\* The caller hands over a payload: its bytes are the next numbers.
Payload(n) == [i \in 1..n |-> nsub + i]

Finish(op, val, e, cause, out) ==
    /\ pc' = "idle"
    /\ spin' = FALSE
    /\ infw' = infw
    /\ ret' = [op |-> op, val |-> val, err |-> e, data |-> out]
    /\ errno' = e
    /\ ev' = cause
    /\ got' = IF op \in {"read", "readlh"} THEN got \o out ELSE got
    /\ clean' = (clean /\ ~(op \in {"write", "flush"} /\ cause \in {"err", "timeout"}))
    /\ rt' = CASE op = "write" /\ rt.stage = 1 /\ val = len /\ cause \notin {"err", "timeout"}
                    -> [rt EXCEPT !.stage = 2]
               [] op = "flush" /\ rt.stage = 2 /\ e = "0"
                    -> [rt EXCEPT !.stage = 3]
               [] op = "read" /\ rt.stage = 5
                    -> rt
               [] OTHER -> [stage |-> 0, payload |-> <<>>]

Goto(where, e, cause) ==
    /\ pc' = where
    /\ spin' = (cause = "wb" /\ ~spin)
    /\ infw' = infw
    /\ errno' = e
    /\ ev' = cause
    /\ UNCHANGED <<ret, got, clean, rt>>

-----------------------------------------------------------------------------
\* fileopen / fileattach: the channel after construction.

fileopen ==
    /\ how = "open"
    /\ kind \in Modes
    /\ f = [ifirst |-> 0, ilen |-> 0, olen |-> 0, ibuf |-> Zeros, obuf |-> Zeros,
            eof |-> FALSE, mode |-> kind]
    /\ errno = "0"

\* malloc'ed and neither eof nor mode assigned: both hold whatever was there.
fileattach ==
    /\ how = "attach"
    /\ kind \in {"S_IFREG", "S_IFIFO"}
    /\ \E e \in BOOLEAN, m \in Modes :
        f = [ifirst |-> 0, ilen |-> 0, olen |-> 0, ibuf |-> Zeros, obuf |-> Zeros,
             eof |-> e, mode |-> m]
    /\ errno = "0"

InitialData == {[i \in 1..n |-> 100 + i] : n \in {0, MaxData}}

\* The channel and its descriptor right after construction.
Created ==
    /\ (fileopen \/ fileattach)
    /\ data \in InitialData
    /\ offset = 0
    /\ wr = <<>>
    /\ pc = "idle"
    /\ infw = FALSE
    /\ len = 0 /\ lowwater = 0 /\ highwater = 0
    /\ buf = <<>>
    /\ remaining = 0 /\ received = 0
    /\ ret = NoRet
    /\ ev = "none"
    /\ nsub = 0
    /\ got = <<>>
    /\ zr = FALSE
    /\ clean = TRUE
    /\ rt = [stage |-> 0, payload |-> <<>>]
    /\ sought = -1
    /\ dropped = {}
    /\ spin = FALSE

Init == Created /\ calls = MaxCalls

-----------------------------------------------------------------------------
\* filewrite, lines 89-135, and fileflush, lines 137-165.

\* filewrite after its fileflush returned with channel g and errno e
\* (lines 100-114).
AfterFlushInWrite(g, e, cause) ==
    IF e # "0"
    THEN /\ f' = g
         /\ Finish("write", 0, e, cause, <<>>)
         /\ UNCHANGED remaining
    ELSE IF Fits(g.olen, len)
    THEN /\ f' = [g EXCEPT !.obuf = MemcpyInto(g.obuf, g.olen, buf),
                           !.olen = g.olen + len]
         /\ Finish("write", len, "0", cause, <<>>)
         /\ UNCHANGED remaining
    ELSE /\ f' = g
         /\ remaining' = len
         /\ pc' = "write_loop" /\ infw' = FALSE /\ spin' = FALSE
         /\ errno' = e /\ ev' = cause
         /\ UNCHANGED <<ret, got, clean, rt>>

\* fileflush returns with channel g and errno e, to whoever called it.
FlushReturns(g, e, cause) ==
    IF infw
    THEN AfterFlushInWrite(g, e, cause)
    ELSE /\ f' = g
         /\ Finish("flush", 0, e, cause, <<>>)
         /\ UNCHANGED remaining

\* The caller starts a write-flush-seek-read sequence at offset 0 of a
\* regular file opened with fileopen, with nothing buffered.
StartsRoundTrip == how = "open" /\ kind = "S_IFREG" /\ offset = 0
                   /\ f.olen = 0 /\ f.ilen = 0

filewrite_call ==
    /\ pc = "idle"
    /\ calls > 0 /\ calls' = calls - 1
    /\ \E n \in 0..MaxLen :
        /\ nsub + n <= MaxSub
        /\ len' = n /\ buf' = Payload(n) /\ nsub' = nsub + n
        /\ IF Fits(f.olen, n)
           THEN /\ f' = [f EXCEPT !.obuf = MemcpyInto(f.obuf, f.olen, Payload(n)),
                                  !.olen = f.olen + n]
                /\ pc' = "idle" /\ infw' = FALSE
                /\ ret' = [op |-> "write", val |-> n, err |-> "0", data |-> <<>>]
                /\ errno' = "0" /\ ev' = "none"
                /\ rt' = IF StartsRoundTrip
                         THEN [stage |-> 2, payload |-> Payload(n)]
                         ELSE [stage |-> 0, payload |-> <<>>]
                /\ remaining' = 0 /\ UNCHANGED <<got, clean>>
           ELSE /\ rt' = IF StartsRoundTrip
                         THEN [stage |-> 1, payload |-> Payload(n)]
                         ELSE [stage |-> 0, payload |-> <<>>]
                /\ ret' = NoRet
                /\ UNCHANGED <<got, clean, f>>
                /\ IF f.olen = 0
                   THEN \* fileflush returns at once with errno = 0
                        /\ remaining' = n
                        /\ pc' = "write_loop" /\ infw' = FALSE
                        /\ errno' = "0" /\ ev' = "none"
                   ELSE /\ remaining' = f.olen
                        /\ pc' = "flush_loop" /\ infw' = TRUE
                        /\ errno' = errno /\ ev' = "none"
    /\ lowwater' = 0 /\ highwater' = 0 /\ received' = 0
    /\ sought' = -1 /\ spin' = FALSE
    /\ UNCHANGED <<fdvars, fixed, zr, dropped>>

fileflush_call ==
    /\ pc = "idle"
    /\ calls > 0 /\ calls' = calls - 1
    /\ len' = 0 /\ buf' = <<>>
    /\ IF f.olen = 0
       THEN /\ pc' = "idle" /\ infw' = FALSE
            /\ ret' = [op |-> "flush", val |-> 0, err |-> "0", data |-> <<>>]
            /\ errno' = "0" /\ ev' = "none"
            /\ rt' = IF rt.stage = 2 THEN [rt EXCEPT !.stage = 3]
                     ELSE [stage |-> 0, payload |-> <<>>]
            /\ remaining' = 0
            /\ UNCHANGED <<got, clean>>
       ELSE /\ remaining' = f.olen
            /\ pc' = "flush_loop" /\ infw' = FALSE
            /\ ret' = NoRet /\ ev' = "none"
            /\ rt' = IF rt.stage = 2 THEN rt ELSE [stage |-> 0, payload |-> <<>>]
            /\ UNCHANGED <<errno, got, clean>>
    /\ lowwater' = 0 /\ highwater' = 0 /\ received' = 0
    /\ sought' = -1 /\ spin' = FALSE
    /\ UNCHANGED <<f, fdvars, fixed, nsub, zr, dropped>>

\* One turn of fileflush's loop: write(f->fd, pos, remaining), lines 145-163.
fileflush_write ==
    /\ pc = "flush_loop"
    /\ \E r \in WriteOutcomes(FlushSpan(f.obuf, f.olen, remaining)) :
        /\ IF r.rc = -1
           THEN /\ UNCHANGED fdvars
                /\ IF r.err # "EAGAIN"
                   THEN FlushReturns(f, r.err, "err")
                   ELSE /\ Goto(IF SkipFdwait(f.mode) THEN "flush_loop" ELSE "flush_wait",
                                r.err, "wb")
                        /\ UNCHANGED <<f, remaining>>
           ELSE /\ wr' = wr \o SubSeq(FlushSpan(f.obuf, f.olen, remaining), 1, r.rc)
                /\ data' = DataAfterWrite(FlushSpan(f.obuf, f.olen, remaining), r.rc)
                /\ offset' = OffsetAfterWrite(r.rc)
                /\ IF remaining - r.rc = 0
                   THEN FlushReturns(Drained(f), "0", "ok")
                   ELSE /\ remaining' = remaining - r.rc
                        /\ Goto("flush_loop", errno, "ok")
                        /\ UNCHANGED f
    /\ UNCHANGED <<env, args, buf, received, nsub, zr, hist>>

\* fdwait(f->fd, FDW_OUT, deadline) in fileflush, lines 152-158.
fileflush_fdwait ==
    /\ pc = "flush_wait"
    /\ \/ FlushReturns(f, "ETIMEDOUT", "timeout")
       \/ /\ Goto("flush_loop", errno, "ready")
          /\ UNCHANGED <<f, remaining>>
    /\ UNCHANGED <<fdvars, env, args, buf, received, nsub, zr, hist>>

\* One turn of filewrite's direct loop, lines 115-134.
filewrite_write ==
    /\ pc = "write_loop"
    /\ \E r \in WriteOutcomes(WriteSpan(buf, len, remaining)) :
        /\ IF r.rc = -1
           THEN /\ UNCHANGED <<fdvars, f, remaining>>
                /\ IF r.err # "EAGAIN"
                   THEN Finish("write", 0, r.err, "err", <<>>)
                   ELSE /\ Goto(IF SkipFdwait(f.mode) THEN "write_loop" ELSE "write_wait",
                                r.err, "wb")
           ELSE /\ wr' = wr \o SubSeq(WriteSpan(buf, len, remaining), 1, r.rc)
                /\ data' = DataAfterWrite(WriteSpan(buf, len, remaining), r.rc)
                /\ offset' = OffsetAfterWrite(r.rc)
                /\ remaining' = remaining - r.rc
                /\ UNCHANGED f
                /\ IF remaining - r.rc = 0
                   THEN Finish("write", len, errno, "ok", <<>>)
                   ELSE /\ Goto("write_loop", errno, "ok")
    /\ UNCHANGED <<env, args, buf, received, nsub, zr, hist>>

\* fdwait(f->fd, FDW_OUT, deadline) in filewrite, lines 123-129.
filewrite_fdwait ==
    /\ pc = "write_wait"
    /\ \/ Finish("write", len - remaining, "ETIMEDOUT", "timeout", <<>>)
       \/ /\ Goto("write_loop", errno, "ready")
    /\ UNCHANGED <<f, fdvars, env, args, buf, remaining, received, nsub, zr, hist>>

-----------------------------------------------------------------------------
\* fileread, lines 167-246.

\* AfterTurn with the wait left out.
AfterTurn_NoWait(loop, wait, mode) == loop

\* AfterTurn waiting for the descriptor to become writable.
AfterTurn_WrongWait(loop, wait, mode) == IF SkipFdwait(mode) THEN loop ELSE "write_wait"

\* After a turn of a read loop that did not return (lines 236-240, 339-343):
\* regular files and directories go round again, the rest call fdwait.
AfterTurn(loop, wait, mode) == IF SkipFdwait(mode) THEN loop ELSE wait

fileread_call ==
    /\ pc = "idle"
    /\ calls > 0 /\ calls' = calls - 1
    /\ \E n \in 0..MaxLen :
        /\ len' = n
        /\ rt' = IF rt.stage = 4 /\ n = Len(rt.payload)
                 THEN [rt EXCEPT !.stage = 5]
                 ELSE [stage |-> 0, payload |-> <<>>]
        /\ IF f.ilen >= n
           THEN /\ buf' = BytesAt(f.ibuf, f.ifirst, n)
                /\ f' = TakeFront(f, n)
                /\ pc' = "idle"
                /\ ret' = [op |-> "read", val |-> n, err |-> "0", data |-> buf']
                /\ errno' = "0" /\ ev' = "none"
                /\ got' = got \o buf'
                /\ remaining' = 0
           ELSE /\ buf' = BytesAt(f.ibuf, f.ifirst, f.ilen)
                /\ remaining' = n - f.ilen
                /\ f' = Emptied(f)
                /\ pc' = "read_loop"
                /\ ret' = NoRet /\ ev' = "none"
                /\ UNCHANGED <<errno, got>>
    /\ lowwater' = 0 /\ highwater' = 0 /\ received' = 0
    /\ infw' = FALSE
    /\ spin' = FALSE
    /\ UNCHANGED <<fdvars, fixed, nsub, zr, clean, hist>>

\* One turn of fileread's loop: a read(2) and what follows it, lines 188-238.
fileread_read ==
    /\ pc = "read_loop"
    /\ \E r \in ReadOutcomes(IF remaining > MILL_FILE_BUFLEN
                             THEN remaining ELSE MILL_FILE_BUFLEN) :
        /\ IF r.rc = 0
           THEN /\ f' = SetEof(f)
                /\ zr' = TRUE
                /\ Finish("read", len - remaining, errno, "eof", buf)
                /\ UNCHANGED <<offset, buf, remaining>>
           ELSE IF r.rc = -1
           THEN /\ UNCHANGED <<offset, buf, remaining, zr>>
                /\ IF r.err # "EAGAIN"
                   THEN /\ Finish("read", len - remaining, r.err, "err", buf)
                        /\ UNCHANGED f
                   ELSE /\ Goto(AfterTurn("read_loop", "read_wait", f.mode), r.err, "wb")
                        \* sz = 0 < remaining: lines 221-226 reset the cursors
                        /\ f' = IF remaining > MILL_FILE_BUFLEN THEN f
                                ELSE Emptied(f)
           ELSE LET bytes == SubSeq(data, offset + 1, offset + r.rc) IN
                /\ offset' = offset + r.rc
                /\ UNCHANGED zr
                /\ IF remaining > MILL_FILE_BUFLEN
                   THEN \* straight into the caller's buffer
                        /\ buf' = buf \o bytes
                        /\ UNCHANGED f
                        /\ IF r.rc = remaining
                           THEN /\ Finish("read", len, "0", "ok", buf')
                                /\ UNCHANGED remaining
                           ELSE /\ remaining' = remaining - r.rc
                                /\ Goto(AfterTurn("read_loop", "read_wait", f.mode),
                                        errno, "ok")
                   ELSE \* into f->ibuf, then what is needed into the caller's
                        IF r.rc < remaining
                        THEN /\ buf' = buf \o bytes
                             /\ remaining' = remaining - r.rc
                             /\ f' = Emptied([f EXCEPT !.ibuf = MemcpyInto(f.ibuf, 0, bytes)])
                             /\ Goto(AfterTurn("read_loop", "read_wait", f.mode),
                                     errno, "ok")
                        ELSE /\ buf' = buf \o SubSeq(bytes, 1, remaining)
                             /\ f' = KeepSurplus(f, bytes, remaining)
                             /\ Finish("read", len, "0", "ok", buf')
                             /\ UNCHANGED remaining
    /\ UNCHANGED <<data, wr, env, args, received, nsub, hist>>

\* fdwait(f->fd, FDW_IN, deadline) in fileread, lines 240-244.
fileread_fdwait ==
    /\ pc = "read_wait"
    /\ \/ Finish("read", len - remaining, "ETIMEDOUT", "timeout", buf)
       \/ /\ Goto("read_loop", errno, "ready")
    /\ UNCHANGED <<f, fdvars, env, args, buf, remaining, received, nsub, zr, hist>>

-----------------------------------------------------------------------------
\* filereadlh, lines 248-349.

filereadlh_call ==
    /\ pc = "idle"
    /\ calls > 0 /\ calls' = calls - 1
    /\ \E hw \in 0..MaxLen : \E lw \in 0..hw :
        /\ lowwater' = lw /\ highwater' = hw
        /\ IF f.ilen >= lw /\ f.ilen <= hw
           THEN \* between the watermarks: hand over all of it
                /\ buf' = BytesAt(f.ibuf, f.ifirst, f.ilen)
                /\ f' = Emptied(f)
                /\ pc' = "idle"
                /\ ret' = [op |-> "readlh", val |-> f.ilen, err |-> "0", data |-> buf']
                /\ errno' = "0"
                /\ got' = got \o buf'
                /\ remaining' = 0 /\ received' = 0
           ELSE IF f.ilen >= hw
           THEN \* above highwater
                /\ buf' = BytesAt(f.ibuf, f.ifirst, hw)
                /\ f' = TakeFront(f, hw)
                /\ pc' = "idle"
                /\ ret' = [op |-> "readlh", val |-> hw, err |-> "0", data |-> buf']
                /\ errno' = "0"
                /\ got' = got \o buf'
                /\ remaining' = 0 /\ received' = 0
           ELSE \* below lowwater
                /\ buf' = BytesAt(f.ibuf, f.ifirst, f.ilen)
                /\ remaining' = hw - f.ilen
                /\ received' = f.ilen
                /\ f' = Emptied(f)
                /\ pc' = "readlh_loop"
                /\ ret' = NoRet
                /\ UNCHANGED <<errno, got>>
    /\ ev' = "none"
    /\ len' = 0
    /\ rt' = [stage |-> 0, payload |-> <<>>]
    /\ infw' = FALSE
    /\ spin' = FALSE
    /\ UNCHANGED <<fdvars, fixed, nsub, zr, clean, hist>>

\* What filereadlh does with the sz bytes one read(2) delivered (sz = 0 after
\* a would-block), e being errno after the syscall: lines 295-301 for a read
\* straight into the caller's buffer, lines 316-337 for a read into f->ibuf.
filereadlh_got(bytes, e, cause) ==
    LET n == Len(bytes) IN
    IF remaining > MILL_FILE_BUFLEN
    THEN /\ buf' = buf \o bytes
         /\ UNCHANGED f
         /\ IF received + n >= lowwater
            THEN /\ Finish("readlh", received + n, "0", cause, buf')
                 /\ UNCHANGED <<remaining, received>>
            ELSE /\ remaining' = remaining - n
                 /\ received' = received + n
                 /\ Goto(AfterTurn("readlh_loop", "readlh_wait", f.mode), e, cause)
    ELSE IF received + n < lowwater
    THEN /\ buf' = buf \o bytes
         /\ remaining' = remaining - n
         /\ received' = received + n
         /\ f' = Emptied([f EXCEPT !.ibuf = MemcpyInto(f.ibuf, 0, bytes)])
         /\ Goto(AfterTurn("readlh_loop", "readlh_wait", f.mode), e, cause)
    ELSE IF OverHigh(received, n, highwater)
    THEN /\ buf' = buf \o SubSeq(bytes, 1, remaining)
         /\ f' = KeepSurplus(f, bytes, remaining)
         /\ Finish("readlh", highwater, "0", cause, buf')
         /\ UNCHANGED <<remaining, received>>
    ELSE /\ buf' = buf \o bytes
         /\ f' = Emptied([f EXCEPT !.ibuf = MemcpyInto(f.ibuf, 0, bytes)])
         /\ Finish("readlh", received + n, "0", cause, buf')
         /\ UNCHANGED <<remaining, received>>

\* One turn of filereadlh's loop: a read(2) and what follows it, lines 282-341.
filereadlh_read ==
    /\ pc = "readlh_loop"
    /\ \E r \in ReadOutcomes(IF remaining > MILL_FILE_BUFLEN
                             THEN remaining ELSE MILL_FILE_BUFLEN) :
        IF r.rc = 0
        THEN /\ f' = SetEof(f)
             /\ zr' = TRUE
             /\ Finish("readlh", received, errno, "eof", buf)
             /\ UNCHANGED <<offset, buf, remaining, received>>
        ELSE IF r.rc = -1 /\ r.err # "EAGAIN"
        THEN /\ Finish("readlh", received, r.err, "err", buf)
             /\ UNCHANGED <<f, offset, buf, remaining, received, zr>>
        ELSE IF r.rc = -1
        THEN /\ filereadlh_got(<<>>, r.err, "wb")
             /\ UNCHANGED <<offset, zr>>
        ELSE /\ offset' = offset + r.rc
             /\ filereadlh_got(SubSeq(data, offset + 1, offset + r.rc), errno, "ok")
             /\ UNCHANGED zr
    /\ UNCHANGED <<data, wr, env, args, nsub, hist>>

\* fdwait(f->fd, FDW_IN, deadline) in filereadlh, lines 343-347.
filereadlh_fdwait ==
    /\ pc = "readlh_wait"
    /\ \/ Finish("readlh", received, "ETIMEDOUT", "timeout", buf)
       \/ /\ Goto("readlh_loop", errno, "ready")
    /\ UNCHANGED <<f, fdvars, env, args, buf, remaining, received, nsub, zr, hist>>

-----------------------------------------------------------------------------
\* fileseek, filetell, filesize, fileeof: lines 381-406.

\* lseek(2) works on everything but pipes and sockets.
Seekable == kind # "S_IFIFO"

\* Discarded with the input buffer left as it was.
Discarded_InputKept(g) == [g EXCEPT !.olen = 0, !.eof = FALSE]

\* f->ifirst = 0; f->ilen = 0; f->olen = 0; f->eof = 0  (lines 386-389)
Discarded(g) == [g EXCEPT !.ifirst = 0, !.ilen = 0, !.olen = 0, !.eof = FALSE]

\* LogicalPos with the read-ahead not taken off.
LogicalPos_Physical(pos, ilen) == pos

\* lseek(f->fd, 0, SEEK_CUR) - f->ilen  (line 382)
LogicalPos(pos, ilen) == pos - ilen

fileseek ==
    /\ pc = "idle"
    /\ calls > 0 /\ calls' = calls - 1
    /\ \E off \in 0..Len(data) :
        /\ f' = Discarded(f)
        /\ sought' = IF Seekable THEN off ELSE -1
        /\ offset' = IF Seekable THEN off ELSE offset
        /\ errno' = IF Seekable THEN errno ELSE "ESPIPE"
        /\ ret' = [op |-> "seek", val |-> IF Seekable THEN off ELSE -1,
                   err |-> errno', data |-> <<>>]
        /\ rt' = IF rt.stage = 3 /\ off = 0 /\ Seekable
                 THEN [rt EXCEPT !.stage = 4]
                 ELSE [stage |-> 0, payload |-> <<>>]
    /\ got' = <<>> /\ zr' = FALSE
    /\ clean' = (clean /\ f.olen = 0)
    /\ dropped' = dropped \cup ({f.obuf[i] : i \in 1..f.olen}
                              \ {wr[j] : j \in 1..Len(wr)})
    /\ ev' = "none"
    /\ len' = 0 /\ lowwater' = 0 /\ highwater' = 0
    /\ buf' = <<>> /\ remaining' = 0 /\ received' = 0
    /\ infw' = FALSE
    /\ spin' = FALSE
    /\ UNCHANGED <<data, wr, fixed, pc, nsub>>

filetell ==
    /\ pc = "idle"
    /\ calls > 0 /\ calls' = calls - 1
    /\ errno' = IF Seekable THEN errno ELSE "ESPIPE"
    /\ ret' = [op |-> "tell", val |-> LogicalPos(IF Seekable THEN offset ELSE -1, f.ilen),
               err |-> errno', data |-> <<>>]
    /\ rt' = [stage |-> 0, payload |-> <<>>]
    /\ ev' = "none"
    /\ len' = 0 /\ lowwater' = 0 /\ highwater' = 0
    /\ buf' = <<>> /\ remaining' = 0 /\ received' = 0
    /\ infw' = FALSE
    /\ spin' = FALSE
    /\ UNCHANGED <<f, fdvars, fixed, pc, nsub, got, zr, clean, hist>>

filesize ==
    /\ pc = "idle"
    /\ calls > 0 /\ calls' = calls - 1
    /\ IF f.mode # "S_IFREG"
       THEN /\ ret' = [op |-> "size", val |-> -1, err |-> errno, data |-> <<>>]
            /\ UNCHANGED errno
       ELSE \* lseek to the end and back; each lseek fails on a pipe
            /\ errno' = IF Seekable THEN errno ELSE "ESPIPE"
            /\ ret' = [op |-> "size",
                       val |-> (IF Seekable THEN Len(data) ELSE -1) + f.olen,
                       err |-> errno', data |-> <<>>]
    /\ rt' = [stage |-> 0, payload |-> <<>>]
    /\ ev' = "none"
    /\ len' = 0 /\ lowwater' = 0 /\ highwater' = 0
    /\ buf' = <<>> /\ remaining' = 0 /\ received' = 0
    /\ infw' = FALSE
    /\ spin' = FALSE
    /\ UNCHANGED <<f, fdvars, fixed, pc, nsub, got, zr, clean, hist>>

fileeof == f.eof

-----------------------------------------------------------------------------
Next ==
    \/ filewrite_call
    \/ fileflush_call
    \/ fileflush_write
    \/ fileflush_fdwait
    \/ filewrite_write
    \/ filewrite_fdwait
    \/ fileread_call
    \/ fileread_read
    \/ fileread_fdwait
    \/ filereadlh_call
    \/ filereadlh_read
    \/ filereadlh_fdwait
    \/ fileseek
    \/ filetell
    \/ filesize

Spec == Init /\ [][Next]_vars

\* The output side alone: filewrite and fileflush.
InitOut == Created /\ calls = MaxCallsOut

NextOut ==
    \/ filewrite_call
    \/ fileflush_call
    \/ fileflush_write
    \/ fileflush_fdwait
    \/ filewrite_write
    \/ filewrite_fdwait

SpecOut == InitOut /\ [][NextOut]_vars

\* The input side alone: fileread and filereadlh.
InitIn == Created /\ calls = MaxCallsIn

NextIn ==
    \/ fileread_call
    \/ fileread_read
    \/ fileread_fdwait
    \/ filereadlh_call
    \/ filereadlh_read
    \/ filereadlh_fdwait

SpecIn == InitIn /\ [][NextIn]_vars

\* A regular file opened with fileopen, written, flushed, rewound and read.
InitRT == Created /\ how = "open" /\ kind = "S_IFREG" /\ calls = MaxCallsRT

NextRT ==
    \/ filewrite_call
    \/ fileflush_call
    \/ fileflush_write
    \/ filewrite_write
    \/ fileseek
    \/ fileread_call
    \/ fileread_read

SpecRT == InitRT /\ [][NextRT]_vars

\* A seekable descriptor that is only read, sought and asked its position.
InitPos == Created /\ Seekable /\ calls = MaxCallsPos

NextPos ==
    \/ fileseek
    \/ filetell
    \/ fileread_call
    \/ fileread_read
    \/ fileread_fdwait
    \/ filereadlh_call
    \/ filereadlh_read
    \/ filereadlh_fdwait

SpecPos == InitPos /\ [][NextPos]_vars

\* The calls that can wait, with the scheduling they run under: the owning
\* task keeps running, so a pending read(2) or write(2) is made; and fdwait
\* reports a timeout once the deadline has passed, so a call that keeps
\* coming back to fdwait is timed out in the end.  The descriptor has
\* bytes to deliver and f->eof starts clear: neither decides whether a call
\* returns.  An attached channel whose mode happens to match its descriptor
\* behaves as the opened one does, so that case is left to fileopen.
InitLive ==
    /\ Created /\ ~f.eof /\ data # <<>>
    /\ how = "attach" => f.mode # kind
    /\ calls = MaxCallsLive

NextLive ==
    \/ filewrite_call
    \/ fileflush_call
    \/ fileflush_write
    \/ fileflush_fdwait
    \/ filewrite_write
    \/ filewrite_fdwait
    \/ fileread_call
    \/ fileread_read
    \/ fileread_fdwait
    \/ filereadlh_call
    \/ filereadlh_read
    \/ filereadlh_fdwait

Syscall == fileflush_write \/ filewrite_write \/ fileread_read \/ filereadlh_read

FdwaitTimesOut ==
    /\ fileflush_fdwait \/ filewrite_fdwait \/ fileread_fdwait \/ filereadlh_fdwait
    /\ ev' = "timeout"

SpecLive == InitLive /\ [][NextLive]_vars /\ WF_vars(Syscall) /\ SF_vars(FdwaitTimesOut)

-----------------------------------------------------------------------------
\* Properties.

Numbered(n) == [i \in 1..n |-> i]

InputLoop  == {"read_loop", "readlh_loop"}
InputWait  == {"read_wait", "readlh_wait"}
SyscallPcs == {"flush_loop", "write_loop", "read_loop", "readlh_loop"}
FdwaitPcs  == {"flush_wait", "write_wait", "read_wait", "readlh_wait"}
FdwaitOf   == [p \in SyscallPcs |->
                 CASE p = "flush_loop" -> "flush_wait"
                   [] p = "write_loop" -> "write_wait"
                   [] p = "read_loop" -> "read_wait"
                   [] p = "readlh_loop" -> "readlh_wait"]

\* C1: on a regular file opened with fileopen, a payload written at offset 0
\* with filewrite, flushed with a successful fileflush, then fileseek(0),
\* then fileread of as many bytes, comes back whole and unchanged, whatever
\* counts write(2) and read(2) returned on the way (read(2) reporting no I/O
\* error).
RoundTrip ==
    (pc = "idle" /\ ret.op = "read" /\ rt.stage = 5 /\ ev # "err")
        => (ret.val = Len(rt.payload) /\ ret.data = rt.payload)

RoundTripReached ==
    /\ pc = "idle" /\ ret.op = "read" /\ rt.stage = 5 /\ ev = "ok"
    /\ Len(rt.payload) > MILL_FILE_BUFLEN
    /\ ret.val = Len(rt.payload)

\* C2: with only fileread and filereadlh called, the bytes handed to the
\* caller so far, then those already copied by the running call, then those
\* held in f->ibuf, are exactly the bytes read(2) delivered, in order; and a
\* call returns as many bytes as it says.
FifoInput ==
    /\ got \o (IF pc \in InputLoop \cup InputWait THEN buf ELSE <<>>)
           \o BytesAt(f.ibuf, f.ifirst, f.ilen) = SubSeq(data, 1, offset)
    /\ (pc = "idle" /\ ret.op \in {"read", "readlh"}) => Len(ret.data) = ret.val

FifoInputReached ==
    /\ pc = "idle" /\ ret.op = "read" /\ ev = "none"
    /\ ret.val > 0 /\ Len(got) > ret.val

\* C3: as long as every filewrite and fileflush so far ended without error
\* or timeout, the descriptor has received a prefix of the submitted bytes
\* in submission order; between calls the rest is what f->obuf holds, and
\* after a fileflush nothing is left out.
OutputInOrder ==
    clean => /\ Len(wr) <= nsub
             /\ wr = Numbered(Len(wr))
             /\ pc = "idle" => wr \o BytesAt(f.obuf, 0, f.olen) = Numbered(nsub)
             /\ (pc = "idle" /\ ret.op = "flush") => wr = Numbered(nsub)

OutputInOrderReached ==
    /\ clean /\ pc = "idle" /\ ret.op = "write" /\ ~infw /\ ev = "ok"
    /\ len > MILL_FILE_BUFLEN /\ nsub > len
    /\ wr = Numbered(nsub)

\* C4: when fileflush gives up on a timeout, f->obuf holds afterwards
\* exactly the bytes write(2) has not accepted yet.
FlushTimeoutKeepsUnsent ==
    [][(pc = "flush_wait" /\ ~infw /\ pc' = "idle" /\ ev' = "timeout")
        => /\ f'.olen = remaining
           /\ BytesAt(f'.obuf, 0, f'.olen)
                = BytesAt(f.obuf, f.olen - remaining, remaining)]_vars

\* C5: when a filewrite that went through the direct loop returns, it
\* returns the number of payload bytes write(2) accepted, with errno 0 on
\* success, ETIMEDOUT on timeout and the I/O error otherwise.
DirectWriteAccounting ==
    (pc = "idle" /\ ret.op = "write" /\ ~infw /\ ev # "none")
        => /\ ret.val = len - remaining
           /\ ret.err = CASE ev = "ok" -> "0"
                          [] ev = "timeout" -> "ETIMEDOUT"
                          [] OTHER -> "EIO"

\* C6: absent an I/O error, a fileread that returns fewer bytes than asked
\* leaves fileeof true or errno ETIMEDOUT, and one that returns all of them
\* leaves errno 0.
ReadExactUnlessTruncated ==
    (pc = "idle" /\ ret.op = "read" /\ ev # "err")
        => /\ ret.val <= len
           /\ ret.val < len => (fileeof \/ ret.err = "ETIMEDOUT")
           /\ ret.val = len => ret.err = "0"

ReadTruncatedReached ==
    /\ pc = "idle" /\ ret.op = "read" /\ ev = "eof"
    /\ ret.val > 0 /\ ret.val < len

\* C7: filereadlh never returns more than highwater bytes, returns fewer
\* than lowwater only after end of stream, timeout or I/O error, and when
\* one read(2) takes the accumulated count above highwater it returns
\* exactly highwater bytes and leaves the excess, in order, in f->ibuf.
WatermarkBounds ==
    [][/\ (pc' = "idle" /\ ret'.op = "readlh")
            => /\ ret'.val <= highwater'
               /\ Len(ret'.data) = ret'.val
               /\ ret'.val < lowwater' => ev' \in {"eof", "timeout", "err"}
       /\ (pc = "readlh_loop" /\ received + (offset' - offset) > highwater)
            => /\ pc' = "idle" /\ ret'.op = "readlh" /\ ret'.val = highwater
               /\ f'.ilen = received + (offset' - offset) - highwater
               /\ BytesAt(f'.ibuf, f'.ifirst, f'.ilen)
                    = SubSeq(data, offset' - f'.ilen + 1, offset')
               /\ ret'.data = buf \o SubSeq(data, offset + 1, offset' - f'.ilen)]_vars

WatermarkExcessKept ==
    /\ pc = "idle" /\ ret.op = "readlh" /\ ev = "ok"
    /\ received > 0 /\ ret.val = highwater /\ f.ilen > 0

\* C8: fileeof is true exactly when a read(2) returned 0 since the channel
\* was created or last sought.
EofIffZeroRead == fileeof <=> zr

\* C9: no fileread, filereadlh, filewrite or fileflush returns with errno
\* EAGAIN.
NoWouldBlockSurfaced ==
    (pc = "idle" /\ ret.op \in {"read", "readlh", "write", "flush"})
        => ret.err # "EAGAIN"

\* C10: a channel whose mode is regular file or directory never calls
\* fdwait and repeats the syscall right after a would-block; a channel of
\* any other mode calls fdwait after a would-block and repeats the syscall
\* only once fdwait has reported the descriptor ready.
FdwaitPolicy ==
    [][/\ f.mode \in {"S_IFREG", "S_IFDIR"}
            => (pc' \notin FdwaitPcs /\ ev' \notin {"ready", "timeout"})
       /\ (pc \in SyscallPcs /\ ev' = "wb")
            => pc' = IF f.mode \in {"S_IFREG", "S_IFDIR"} THEN pc ELSE FdwaitOf[pc]
       /\ (pc \in FdwaitPcs /\ pc' # pc)
            => \/ pc' = "idle" /\ ev' = "timeout"
               \/ ev' = "ready" /\ pc' \in SyscallPcs /\ FdwaitOf[pc'] = pc]_vars

WouldBlockRetried ==
    pc = "write_loop" /\ ev = "wb" /\ f.mode = "S_IFDIR"

\* The step that starts a filewrite, and the one that starts a fileflush
\* called by the owning task.
IsWriteCall ==
    /\ pc = "idle" /\ calls' = calls - 1
    /\ (ret'.op = "write" \/ pc' = "write_loop" \/ (pc' = "flush_loop" /\ infw'))

IsFlushCall ==
    /\ pc = "idle" /\ calls' = calls - 1
    /\ (ret'.op = "flush" \/ (pc' = "flush_loop" /\ ~infw'))

IsSeekCall == pc = "idle" /\ calls' = calls - 1 /\ ret'.op = "seek"
IsTellCall == pc = "idle" /\ calls' = calls - 1 /\ ret'.op = "tell"
IsSizeCall == pc = "idle" /\ calls' = calls - 1 /\ ret'.op = "size"

\* C11: on a channel whose mode is neither regular file nor directory,
\* every turn of fileread's or filereadlh's loop that does not return is
\* followed by fdwait for readability before the next read(2); and when
\* that fdwait times out the call returns at once, with no further read(2),
\* the bytes accumulated so far (none if there were none) and errno
\* ETIMEDOUT.
TimeoutByFdwait ==
    [][f.mode \notin {"S_IFREG", "S_IFDIR"}
        => /\ (pc \in InputLoop /\ pc' # "idle") => pc' = FdwaitOf[pc]
           /\ (pc \in InputWait /\ ev' = "timeout")
                => /\ pc' = "idle" /\ ret'.err = "ETIMEDOUT"
                   /\ ret'.val = Len(buf) /\ ret'.data = buf
                   /\ offset' = offset /\ f' = f]_vars

TimedOutEmpty ==
    /\ pc = "idle" /\ ret.op \in {"read", "readlh"} /\ ev = "timeout"
    /\ ret.val = 0 /\ ret.err = "ETIMEDOUT"
    /\ f.mode = "S_IFIFO" /\ kind = "S_IFIFO"

\* C12: a filewrite whose payload fits after the pending bytes
\* (f->olen + len <= MILL_FILE_BUFLEN when it is called) returns in that
\* step: no write(2), no fdwait, the payload appended to f->obuf, f->olen
\* larger by len, len returned with errno 0, and f->ibuf, its cursors and
\* f->eof untouched.
FittingWriteBuffered ==
    [][(IsWriteCall /\ f.olen + len' <= MILL_FILE_BUFLEN)
        => /\ pc' = "idle" /\ ret'.op = "write"
           /\ ret'.val = len' /\ ret'.err = "0" /\ errno' = "0"
           /\ UNCHANGED fdvars
           /\ f'.olen = f.olen + len'
           /\ BytesAt(f'.obuf, 0, f'.olen) = BytesAt(f.obuf, 0, f.olen) \o buf'
           /\ f'.ibuf = f.ibuf /\ f'.ifirst = f.ifirst /\ f'.ilen = f.ilen
           /\ f'.eof = f.eof]_vars

FullBufferWrite ==
    /\ pc = "idle" /\ ret.op = "write" /\ ev = "none"
    /\ len = MILL_FILE_BUFLEN /\ f.olen = MILL_FILE_BUFLEN
    /\ ret.val = len /\ wr = <<>>

\* C13 as stated: a fileflush called right after a fileflush does no
\* write(2) and no fdwait, changes nothing in the channel, and both calls
\* leave errno 0.
FlushTwice ==
    [][(IsFlushCall /\ ret.op = "flush")
        => /\ ret.err = "0"
           /\ pc' = "idle" /\ ret'.op = "flush" /\ ret'.err = "0"
           /\ f' = f /\ UNCHANGED fdvars]_vars

\* C13, amended: a fileflush called right after a fileflush that left
\* errno 0 does no write(2) and no fdwait, changes nothing in the channel,
\* and leaves errno 0 too.
FlushTwiceAfterSuccess ==
    [][(IsFlushCall /\ ret.op = "flush" /\ ret.err = "0")
        => /\ pc' = "idle" /\ ret'.op = "flush" /\ ret'.err = "0"
           /\ f' = f /\ UNCHANGED fdvars]_vars

\* write, a fileflush that sent the bytes, and a second fileflush
SecondFlushDone ==
    /\ pc = "idle" /\ ret.op = "flush" /\ ev = "none" /\ ret.err = "0"
    /\ calls = MaxCallsOut - 3
    /\ nsub > 0 /\ nsub <= MILL_FILE_BUFLEN /\ wr = Numbered(nsub)

\* C14: filetell changes nothing in the channel or on the descriptor, and
\* after a fileseek to o followed only by fileread and filereadlh calls
\* that returned k bytes in all it returns o + k, which is the descriptor's
\* position less the bytes still unread in f->ibuf.
TellLogical ==
    [][IsTellCall
        => /\ f' = f /\ UNCHANGED fdvars
           /\ sought >= 0 => /\ ret'.val = sought + Len(got)
                             /\ ret'.val = offset - f.ilen]_vars

TellWithReadAhead ==
    /\ pc = "idle" /\ ret.op = "tell" /\ sought > 0
    /\ Len(got) > 0 /\ f.ilen > 0
    /\ ret.val = sought + Len(got)

\* C15: filesize changes nothing in the channel or on the descriptor; on a
\* channel whose mode is regular file it returns the length of the file
\* plus f->olen, on any other channel -1.
SizeOfRegular ==
    [][IsSizeCall
        => /\ f' = f /\ UNCHANGED fdvars
           /\ ret'.val = IF f.mode = "S_IFREG" THEN Len(data) + f.olen ELSE -1]_vars

\* The bytes read since the last fileseek, returned or still held, are the
\* file's bytes from the offset sought.
ReadsFromSought ==
    sought >= 0 =>
        got \o (IF pc \in InputLoop \cup InputWait THEN buf ELSE <<>>)
            \o BytesAt(f.ibuf, f.ifirst, f.ilen) = SubSeq(data, sought + 1, offset)

\* C16: fileseek leaves f->ilen, f->ifirst and f->olen 0 and f->eof false
\* and puts the descriptor at the offset asked for; the reads that follow
\* return the file's bytes from that offset on, and no byte that was waiting
\* in f->obuf when a fileseek discarded it ever reaches the descriptor.
SeekDiscards ==
    /\ [][IsSeekCall
            => /\ f'.ilen = 0 /\ f'.ifirst = 0 /\ f'.olen = 0 /\ ~f'.eof
               /\ Seekable => (offset' = ret'.val /\ ret'.val = sought')
               /\ wr' = wr /\ data' = data]_vars
    /\ [](ReadsFromSought /\ \A i \in 1..Len(wr) : wr[i] \notin dropped)

SeekThenFreshRead ==
    /\ pc = "idle" /\ ret.op = "read" /\ ev # "err"
    /\ dropped # {} /\ sought > 0 /\ ret.val > 0
    /\ got = SubSeq(data, sought + 1, sought + ret.val)

\* C17 as stated: every fdwait follows a read(2) or write(2) of the same
\* call, in the matching direction, that reported would-block.
FdwaitOnlyAfterWouldBlock ==
    [][(pc' \in FdwaitPcs /\ pc' # pc)
        => (pc \in SyscallPcs /\ FdwaitOf[pc] = pc' /\ ev' = "wb")]_vars

\* C17, amended: every fdwait of filewrite and fileflush follows a write(2)
\* of the same call that reported would-block; every fdwait of fileread and
\* filereadlh follows a read(2) of the same call that reported would-block
\* or delivered fewer bytes than the call still needs; and the fdwait is
\* for the direction of that syscall.
FdwaitAfterWouldBlockOrShortRead ==
    [][(pc' \in FdwaitPcs /\ pc' # pc)
        => /\ pc \in SyscallPcs /\ FdwaitOf[pc] = pc'
           /\ \/ ev' = "wb"
              \/ pc \in InputLoop /\ ev' = "ok" /\ offset' > offset]_vars

WaitAfterShortRead ==
    pc \in InputWait /\ ev = "ok" /\ Len(buf) > 0 /\ f.mode = "S_IFIFO"

\* C18: in every state 0 <= f->ifirst, f->ifirst + f->ilen <=
\* MILL_FILE_BUFLEN and 0 <= f->olen <= MILL_FILE_BUFLEN.
CursorInvariants ==
    /\ 0 <= f.ifirst /\ 0 <= f.ilen
    /\ f.ifirst + f.ilen <= MILL_FILE_BUFLEN
    /\ 0 <= f.olen /\ f.olen <= MILL_FILE_BUFLEN

CursorsAtTheEnd ==
    /\ f.ifirst > 0 /\ f.ilen > 0
    /\ f.ifirst + f.ilen = MILL_FILE_BUFLEN
    /\ f.olen = MILL_FILE_BUFLEN

\* C19: on a channel made by fileattach a would-block in fileread,
\* filereadlh, filewrite or fileflush is always followed by fdwait, and
\* filesize returns -1.
AttachedIsOther ==
    [][how = "attach"
        => /\ (pc \in SyscallPcs /\ ev' = "wb") => pc' = FdwaitOf[pc]
           /\ IsSizeCall => ret'.val = -1]_vars

\* C20 as stated: every call of fileread, filereadlh, filewrite and
\* fileflush returns in the end, whatever the channel's mode.
EveryCallReturns == (pc # "idle") ~> (pc = "idle")

\* C20, amended: on a channel whose mode is neither regular file nor
\* directory every call of fileread, filereadlh, filewrite and fileflush
\* returns in the end, even if every read(2) and write(2) reports
\* would-block.
EveryWaitingCallReturns ==
    (pc # "idle" /\ f.mode \notin {"S_IFREG", "S_IFDIR"}) ~> (pc = "idle")

WriteTimedOut ==
    /\ pc = "idle" /\ ret.op = "write" /\ ev = "timeout" /\ ~infw
    /\ ret.err = "ETIMEDOUT" /\ wr = <<>> /\ f.mode = "S_IFIFO"

=============================================================================
